---- MODULE Spec2Model ----
(***************************************************************************)
(* Model of the Fireflies live-transcription proxy: the TranscriptionManager *)
(* singleton (session state, fragment buffer, flush timer, inactivity       *)
(* watchdog, upstream socket), the DatabaseService gateway it writes        *)
(* through, and the /start and /stop routes that drive it.                  *)
(*                                                                         *)
(* Everything runs on one Node.js event loop.  One action of the model is   *)
(* one macrotask: an HTTP request, a socket event, a timer callback or the  *)
(* resolution of a database call.  The synchronous code a macrotask runs,   *)
(* including the synchronous prefix of every async function it calls and    *)
(* the promise continuations (microtasks) it releases, is part of that one  *)
(* action.  An async function suspended at an await on database I/O is an   *)
(* element of the bag `pending`.                                            *)
(***************************************************************************)
EXTENDS Integers, Sequences, FiniteSets, Bags, TLC

\* ---------------------------------------------------------------------------
\* Program constants
\* ---------------------------------------------------------------------------
FLUSH_INTERVAL == 15000

INACTIVITY_TIMEOUT_DURATION == 10 * 60 * 1000

\* ---------------------------------------------------------------------------
\* Bounds of the model
\* ---------------------------------------------------------------------------
\* the clock advances in single steps (Tick) at most MaxTicks times in a run;
\* QuietPeriod advances it further
MaxTicks == 1

\* What the environment may do to one run, counted together: broadcast events
\* delivered, connection faults (disconnect, connect_error, auth.failed),
\* database calls that fail, io() calls that throw, and /start requests
\* accepted after the first.
MaxEvents == 3

\* in the runs without faults (SpecCompact): fragments delivered, and single
\* clock steps
MaxPut == 3

MaxCompactTicks == 2

\* ---------------------------------------------------------------------------
\* Values
\* ---------------------------------------------------------------------------
\* null for the string-valued fields (requestId, transcriptionId, error_message)
Null == "null"

\* `undefined` for the optional parameters of updateTranscriptionRequest
Undefined == "undefined"

\* Times are kept relative to the present instant: Date.now() is 0, a time in
\* the past is negative, and the passage of d milliseconds moves every stored
\* time by -d (Shift).
now == 0

\* null for this.flushTimer / this.inactivityTimer; an armed timer is
\* represented by the time at which it is due, which is never negative
\* because a timer that is due fires before the clock advances
NoTimer == -1

\* null for this.socket; a socket is the index of its connection in `conn`
NoSocket == 0

RequestIds == {"r1", "r2"}

\* generateId() and the clients hand out fresh ids in this order
IdBefore(a, b) == a = "r1" /\ b = "r2"

TranscriptIds == {"t1"}

\* the line separator "\n" as one token of a text
NL == <<"\n">>

Range(f) == {f[i] : i \in DOMAIN f}

\* TranscriptionEvent payloads (end_time and transcript_id are never read by
\* the manager).  NoPayload is a message wrapper without a payload.
F1 == [chunk_id |-> "c1", text |-> "hello", speaker_name |-> "Alice", start_time |-> 5]

F2 == [chunk_id |-> "c2", text |-> "hi", speaker_name |-> "", start_time |-> 0]

NoPayload == [chunk_id |-> "none", text |-> "", speaker_name |-> "", start_time |-> 0]

\* what the provider broadcasts, in this order
Feed == <<F1, F2, NoPayload, F1>>

\* further payloads: a later version of chunk c1, a whitespace-only
\* placeholder, an empty version of chunk c2, and a chunk with a speaker but
\* no text; c1 and c3 start at the same time
F3 == [chunk_id |-> "c1", text |-> "hello again", speaker_name |-> "Alice", start_time |-> 5]

F4 == [chunk_id |-> "c3", text |-> " ", speaker_name |-> "", start_time |-> 5]

F5 == [chunk_id |-> "c2", text |-> "", speaker_name |-> "", start_time |-> 3]

F6 == [chunk_id |-> "c3", text |-> "", speaker_name |-> "Bob", start_time |-> 5]

Fragments == {F1, F2, F3, F4, F5, F6}

\* socket.io disconnect reasons
Reasons == {"io server disconnect", "transport close"}

VARIABLES
    socket,            \* this.socket: NoSocket or an index into conn
    requestId,         \* this.requestId
    transcriptionId,   \* this.transcriptionId
    buffer,            \* this.buffer: sequence of payloads
    lastFlushTime,     \* this.lastFlushTime
    inactivityTimer,   \* this.inactivityTimer: NoTimer or due time
    flushTimer,        \* this.flushTimer: NoTimer or next due time
    isProcessingFlag,  \* this.isProcessingFlag
    scheduled,         \* how many intervals ("flush") and timeouts ("watchdog")
                       \* set by the manager are in the runtime's timer table
    conn,              \* state of every socket created by io(): "connecting",
                       \* "connected" or "closed"
    pending,           \* bag of async calls suspended on a database await
    db,                \* transcription_requests: id -> row
    ticks,             \* single clock steps taken so far (see MaxTicks)
    sent,              \* broadcast events delivered so far
    events,            \* environment events spent so far (see MaxEvents)
    last               \* what the latest macrotask was (observation only)

mgr == <<socket, requestId, transcriptionId, buffer, lastFlushTime,
         inactivityTimer, flushTimer, isProcessingFlag, scheduled>>

vars == <<socket, requestId, transcriptionId, buffer, lastFlushTime,
          inactivityTimer, flushTimer, isProcessingFlag, scheduled, conn,
          pending, db,
          ticks, sent, events, last>>

\* ---------------------------------------------------------------------------
\* The state a macrotask works on, as one record, so that the synchronous
\* code can be written as functions from state to state.
\* ---------------------------------------------------------------------------
Cur ==
    [socket |-> socket, requestId |-> requestId,
     transcriptionId |-> transcriptionId, buffer |-> buffer,
     lastFlushTime |-> lastFlushTime, inactivityTimer |-> inactivityTimer,
     flushTimer |-> flushTimer, isProcessingFlag |-> isProcessingFlag,
     scheduled |-> scheduled,
     conn |-> conn, pending |-> pending, db |-> db, flushes |-> 0]

Commit(s) ==
    /\ socket' = s.socket
    /\ requestId' = s.requestId
    /\ transcriptionId' = s.transcriptionId
    /\ buffer' = s.buffer
    /\ lastFlushTime' = s.lastFlushTime
    /\ inactivityTimer' = s.inactivityTimer
    /\ flushTimer' = s.flushTimer
    /\ isProcessingFlag' = s.isProcessingFlag
    /\ scheduled' = s.scheduled
    /\ conn' = s.conn
    /\ pending' = s.pending
    /\ db' = s.db

\* ---------------------------------------------------------------------------
\* socket.io-client, as far as the manager depends on it
\* ---------------------------------------------------------------------------
\* io(url, opts): a new socket that starts connecting
io(s) ==
    [s EXCEPT !.conn = Append(s.conn, "connecting"),
              !.socket = Len(s.conn) + 1]

\* socket.connect(): a no-op on a connected socket, else (re)opens it
socketConnect(s, k) ==
    IF k = NoSocket \/ s.conn[k] = "connected"
    THEN s
    ELSE [s EXCEPT !.conn[k] = "connecting"]

\* socket.disconnect(): the socket is destroyed; a socket that was connected
\* emits 'disconnect' with reason "io client disconnect" before the call
\* returns (EmitsDisconnect tells the caller to run the handler).
EmitsDisconnect(s, k) == s.conn[k] = "connected"

socketDisconnect(s, k) == [s EXCEPT !.conn[k] = "closed"]

\* ---------------------------------------------------------------------------
\* DatabaseService
\* ---------------------------------------------------------------------------
NoRow == [status |-> "absent", content |-> <<>>, error_message |-> Null]

\* content is TEXT: null and "" are both the empty text <<>> (the code only
\* tests it for truthiness)
NewRow == [status |-> "processing", content |-> <<>>, error_message |-> Null]

\* createTranscriptionRequest: the insert; the primary key rejects a second
\* row with the same id, and the call then throws
createTranscriptionRequest(s, id) ==
    [s EXCEPT !.db[id] = NewRow]

\* updateTranscriptionRequest up to its first await (the select is sent).
\* `stack` names the async functions awaiting the result, innermost first;
\* `at` is the caller's local `now` (broadcast handler), else 0; `covers` is
\* the number of buffered fragments the segment was built from (observation
\* only).
updateTranscriptionRequest(s, id, segmentContent, status, errorMessage, stack, at, covers) ==
    [s EXCEPT !.pending = @ (+) SetToBag({
        [phase |-> "select", requestId |-> id,
         segmentContent |-> segmentContent, status |-> status,
         errorMessage |-> errorMessage, newContent |-> <<>>,
         stack |-> stack, at |-> at, covers |-> covers]})]

\* an append that replaces the content
AppendContent_Replaces(existing, segmentContent) == segmentContent

\* lines 106-108: the text written back, computed from the row the select read
AppendContent(existing, segmentContent) ==
    IF existing # <<>>
    THEN existing \o <<NL>> \o segmentContent
    ELSE segmentContent

\* lines 110-128: the row after the update of call t
UpdatedRow(row, t) ==
    [status |-> IF t.status # Undefined THEN t.status ELSE row.status,
     content |-> t.newContent,
     error_message |-> IF t.errorMessage # Undefined THEN t.errorMessage
                       ELSE row.error_message]

\* ---------------------------------------------------------------------------
\* Fragment compaction
\* ---------------------------------------------------------------------------
\* a grouping that keeps the first fragment of a chunk instead of the last
RECURSIVE ChunkMap_KeepsFirst(_)
ChunkMap_KeepsFirst(buf) ==
    IF buf = <<>> THEN <<>>
    ELSE LET init == ChunkMap_KeepsFirst(SubSeq(buf, 1, Len(buf) - 1))
             e == buf[Len(buf)]
         IN IF \E i \in 1..Len(init) : init[i].chunk_id = e.chunk_id
            THEN init
            ELSE Append(init, e)

\* chunks.set(event.chunk_id, event) over the buffer: a Map keeps the position
\* of a key's first insertion and the value of its last
RECURSIVE ChunkMap(_)
ChunkMap(buf) ==
    IF buf = <<>> THEN <<>>
    ELSE LET init == ChunkMap(SubSeq(buf, 1, Len(buf) - 1))
             e == buf[Len(buf)]
             hit == {i \in 1..Len(init) : init[i].chunk_id = e.chunk_id}
         IN IF hit = {} THEN Append(init, e)
            ELSE [i \in 1..Len(init) |-> IF i \in hit THEN e ELSE init[i]]

\* no sorting: the chunks stay in arrival order
SortByStart_ArrivalOrder(evs) == evs

\* Array.prototype.sort with (a, b) => a.start_time - b.start_time (stable)
RECURSIVE SortByStart(_)
SortByStart(evs) ==
    IF evs = <<>> THEN <<>>
    ELSE LET init == SortByStart(SubSeq(evs, 1, Len(evs) - 1))
             e == evs[Len(evs)]
             k == Cardinality({i \in 1..Len(init) : init[i].start_time <= e.start_time})
         IN SubSeq(init, 1, k) \o <<e>> \o SubSeq(init, k + 1, Len(init))

\* a formatting that keeps placeholders
FormatLine_KeepsPlaceholders(e) ==
    <<IF e.speaker_name # "" THEN e.speaker_name ELSE "Unknown Speaker",
      ": ", e.text>>

\* the texts for which text.trim() is empty
Blank == {"", " "}

\* the .map(): "" for a placeholder, else `${speaker}: ${text}` as one token
\* (the text is not trimmed in the line)
FormatLine(e) ==
    LET speaker == IF e.speaker_name # "" THEN e.speaker_name ELSE "Unknown Speaker"
    IN IF e.text \in Blank /\ speaker = "Unknown Speaker" THEN <<>>
       ELSE <<speaker, ": ", e.text>>

RECURSIVE JoinLines(_)
JoinLines(lines) ==
    IF lines = <<>> THEN <<>>
    ELSE IF Len(lines) = 1 THEN <<lines[1]>>
    ELSE <<lines[1], NL>> \o JoinLines(Tail(lines))

processBufferToTranscript(buf) ==
    LET sorted == SortByStart(ChunkMap(buf))
        lines == SelectSeq([i \in 1..Len(sorted) |-> FormatLine(sorted[i])],
                           LAMBDA l : Len(l) > 0)
    IN JoinLines(lines)

\* ---------------------------------------------------------------------------
\* TranscriptionManager: synchronous parts
\* ---------------------------------------------------------------------------
\* if (timer) clearTimeout(timer): the timer held in a field leaves the
\* runtime's timer table
Cancel(s, kind, timer) ==
    IF timer # NoTimer THEN [s EXCEPT !.scheduled[kind] = @ - 1] ELSE s

\* if (this.flushTimer) { clearTimeout(this.flushTimer); this.flushTimer = null }
clearFlushTimer(s) ==
    [Cancel(s, "flush", s.flushTimer) EXCEPT !.flushTimer = NoTimer]

\* the same for this.inactivityTimer
clearInactivityTimer(s) ==
    [Cancel(s, "watchdog", s.inactivityTimer) EXCEPT !.inactivityTimer = NoTimer]

\* a startFlushTimer that sets the interval without clearing the one it holds
startFlushTimer_NoClear(s) ==
    [s EXCEPT !.flushTimer = now + FLUSH_INTERVAL, !.scheduled["flush"] = @ + 1]

startFlushTimer(s) ==
    [Cancel(s, "flush", s.flushTimer)
       EXCEPT !.flushTimer = now + FLUSH_INTERVAL, !.scheduled["flush"] = @ + 1]

resetInactivityTimer(s) ==
    [Cancel(s, "watchdog", s.inactivityTimer)
       EXCEPT !.inactivityTimer = now + INACTIVITY_TIMEOUT_DURATION,
              !.scheduled["watchdog"] = @ + 1]

\* flushBuffer returns at once, without a write, in these states
FlushReturns(s) == s.buffer = <<>> \/ s.requestId = Null

\* a flushBuffer that writes the status along with the content
flushBuffer_WritesStatus(s, stack, at) ==
    IF FlushReturns(s) THEN s
    ELSE [updateTranscriptionRequest(s, s.requestId,
              processBufferToTranscript(s.buffer), "processing", Undefined,
              <<"flushBuffer">> \o stack, at, Len(s.buffer))
          EXCEPT !.flushes = @ + 1]

\* flushBuffer up to its await: the transcript is computed now, the buffer is
\* cleared only when the write has come back (AfterFlush)
flushBuffer(s, stack, at) ==
    IF FlushReturns(s) THEN s
    ELSE [updateTranscriptionRequest(s, s.requestId,
              processBufferToTranscript(s.buffer), Undefined, Undefined,
              <<"flushBuffer">> \o stack, at, Len(s.buffer))
          EXCEPT !.flushes = @ + 1]

\* a handleError that drops its reference to the socket without closing it
handleError_KeepsConnection(s, message, stack) ==
    LET s1 == [clearInactivityTimer(clearFlushTimer(s))
                  EXCEPT !.isProcessingFlag = FALSE, !.socket = NoSocket]
    IN IF s1.requestId # Null
       THEN updateTranscriptionRequest(s1, s1.requestId, <<>>, "error", message,
                                       <<"handleError">> \o stack, 0, 0)
       ELSE s1

\* handleError up to its await.  The flag is cleared first, so the
\* 'disconnect' event socket.disconnect() may emit finds isProcessing() false.
handleError(s, message, stack) ==
    LET s1 == [clearInactivityTimer(clearFlushTimer(s))
                  EXCEPT !.isProcessingFlag = FALSE]
        s2 == IF s1.socket # NoSocket
              THEN [socketDisconnect(s1, s1.socket) EXCEPT !.socket = NoSocket]
              ELSE s1
    IN IF s2.requestId # Null
       THEN updateTranscriptionRequest(s2, s2.requestId, <<>>, "error", message,
                                       <<"handleError">> \o stack, 0, 0)
       ELSE s2

\* a disconnect handler that takes every reason for recoverable
onDisconnect_AlwaysReconnects(s, reason) ==
    IF s.isProcessingFlag THEN socketConnect(s, s.socket) ELSE s

\* a disconnect handler that takes every reason for fatal
onDisconnect_AlwaysFatal(s, reason) ==
    IF s.isProcessingFlag
    THEN handleError(s, "WebSocket disconnected unexpectedly", <<>>)
    ELSE s

\* a disconnect handler without the isProcessing() test
onDisconnect_Unguarded(s, reason) ==
    IF reason = "io server disconnect" \/ reason = "io client disconnect"
    THEN socketConnect(s, s.socket)
    ELSE handleError(s, "WebSocket disconnected unexpectedly", <<>>)

\* socket.on('disconnect', reason => ...)
onDisconnect(s, reason) ==
    IF s.isProcessingFlag
    THEN IF reason = "io server disconnect" \/ reason = "io client disconnect"
         THEN socketConnect(s, s.socket)
         ELSE handleError(s, "WebSocket disconnected unexpectedly", <<>>)
    ELSE s

\* stopTranscription from "Close the WebSocket connection" on (lines 112-123)
stopTail(s, stack) ==
    LET k == s.socket
        s1 == IF k # NoSocket
              THEN LET d == socketDisconnect(s, k)
                       h == IF EmitsDisconnect(s, k)
                            THEN onDisconnect(d, "io client disconnect")
                            ELSE d
                   IN [h EXCEPT !.socket = NoSocket]
              ELSE s
    IN IF s1.requestId # Null
       THEN updateTranscriptionRequest(s1, s1.requestId, <<>>, "completed",
                                       Undefined, <<"stop.update">> \o stack, 0, 0)
       ELSE s1

\* a stopTranscription that leaves the processing flag for later
stopTranscription_KeepsFlag(s, stack) ==
    LET s1 == clearFlushTimer(s)
    IN IF Len(s1.buffer) > 0 /\ ~FlushReturns(s1)
       THEN flushBuffer(s1, <<"stop.flush">> \o stack, 0)
       ELSE stopTail(s1, stack)

\* stopTranscription up to its first await
stopTranscription(s, stack) ==
    LET s1 == [clearFlushTimer(s) EXCEPT !.isProcessingFlag = FALSE]
    IN IF Len(s1.buffer) > 0 /\ ~FlushReturns(s1)
       THEN flushBuffer(s1, <<"stop.flush">> \o stack, 0)
       ELSE stopTail(s1, stack)

\* handleInactivityTimeout up to its first await
handleInactivityTimeout(s) ==
    LET s1 == [s EXCEPT !.inactivityTimer = NoTimer]
    IN IF Len(s1.buffer) > 0 /\ ~FlushReturns(s1)
       THEN flushBuffer(s1, <<"inactivity.flush">>, 0)
       ELSE stopTranscription(s1, <<"inactivity.stop">>)

\* a start that does not arm the inactivity watchdog
startTranscription_NoWatchdog(s, id, tid, ioThrows) ==
    LET s1 == [s EXCEPT !.requestId = id, !.transcriptionId = tid,
                        !.buffer = <<>>, !.lastFlushTime = now,
                        !.isProcessingFlag = TRUE]
    IN IF ioThrows
       THEN handleError(s1, "Failed to start transcription session",
                        <<"startTranscription">>)
       ELSE startFlushTimer(io(s1))

\* a start without the catch block
startTranscription_IgnoresThrow(s, id, tid, ioThrows) ==
    LET s1 == [s EXCEPT !.requestId = id, !.transcriptionId = tid,
                        !.buffer = <<>>, !.lastFlushTime = now,
                        !.isProcessingFlag = TRUE]
    IN IF ioThrows
       THEN s1
       ELSE resetInactivityTimer(startFlushTimer(io(s1)))

\* startTranscription; ioThrows: the io() call throws
startTranscription(s, id, tid, ioThrows) ==
    LET s1 == [s EXCEPT !.requestId = id, !.transcriptionId = tid,
                        !.buffer = <<>>, !.lastFlushTime = now,
                        !.isProcessingFlag = TRUE]
    IN IF ioThrows
       THEN handleError(s1, "Failed to start transcription session",
                        <<"startTranscription">>)
       ELSE resetInactivityTimer(startFlushTimer(io(s1)))

\* the body of the setInterval callback up to its await
flushTick(s) ==
    IF Len(s.buffer) > 0 /\ ~FlushReturns(s)
    THEN flushBuffer(s, <<"flushTimer">>, 0)
    ELSE [s EXCEPT !.lastFlushTime = now]

\* a fragment handler that re-arms the watchdog for valid payloads only
onBroadcast_RearmsOnValidOnly(s, payload) ==
    IF payload = NoPayload THEN s
    ELSE LET s2 == [resetInactivityTimer(s) EXCEPT !.buffer = Append(@, payload)]
         IN IF now - s2.lastFlushTime >= FLUSH_INTERVAL
            THEN IF FlushReturns(s2)
                 THEN [s2 EXCEPT !.lastFlushTime = now]
                 ELSE flushBuffer(s2, <<"broadcast">>, now)
            ELSE s2

\* socket.on('transcription.broadcast', ...) up to its await
onBroadcast(s, payload) ==
    LET s1 == resetInactivityTimer(s)
    IN IF payload = NoPayload THEN s1
       ELSE LET s2 == [s1 EXCEPT !.buffer = Append(@, payload)]
            IN IF now - s2.lastFlushTime >= FLUSH_INTERVAL
               THEN IF FlushReturns(s2)
                    THEN [s2 EXCEPT !.lastFlushTime = now]
                    ELSE flushBuffer(s2, <<"broadcast">>, now)
               ELSE s2

\* a flushBuffer that does not empty the buffer after its write
AfterFlush_KeepsBuffer(s, t, ok) ==
    LET caller == t.stack[2]
    IN CASE caller = "flushTimer" ->
              IF ok THEN [s EXCEPT !.lastFlushTime = now] ELSE s
         [] caller = "broadcast" ->
              IF ok THEN [s EXCEPT !.lastFlushTime = t.at]
              ELSE handleError(s, "Error processing transcription event", <<>>)
         [] caller = "stop.flush" ->
              IF ok THEN stopTail(s, SubSeq(t.stack, 3, Len(t.stack))) ELSE s
         [] caller = "inactivity.flush" ->
              IF ok THEN stopTranscription(s, <<"inactivity.stop">>) ELSE s
         [] OTHER -> s

\* the code that runs when a flushBuffer write has come back: flushBuffer's
\* own tail (lines 243-256), then the function awaiting flushBuffer
AfterFlush(s, t, ok) ==
    LET s1 == IF ok THEN [s EXCEPT !.buffer = <<>>] ELSE s
        caller == t.stack[2]
    IN CASE caller = "flushTimer" ->
              IF ok THEN [s1 EXCEPT !.lastFlushTime = now] ELSE s1
         [] caller = "broadcast" ->
              IF ok THEN [s1 EXCEPT !.lastFlushTime = t.at]
              ELSE handleError(s1, "Error processing transcription event", <<>>)
         [] caller = "stop.flush" ->
              IF ok THEN stopTail(s1, SubSeq(t.stack, 3, Len(t.stack))) ELSE s1
         [] caller = "inactivity.flush" ->
              IF ok THEN stopTranscription(s1, <<"inactivity.stop">>) ELSE s1
         [] OTHER -> s1

\* a database call of t has returned (ok) or thrown (~ok): resume its awaiters
Return(s, t, ok) ==
    IF t.stack[1] = "flushBuffer" THEN AfterFlush(s, t, ok) ELSE s

\* ---------------------------------------------------------------------------
\* Initial state: the module-level singleton right after construction
\* ---------------------------------------------------------------------------
Init ==
    /\ socket = NoSocket
    /\ requestId = Null
    /\ transcriptionId = Null
    /\ buffer = <<>>
    /\ lastFlushTime = 0
    /\ inactivityTimer = NoTimer
    /\ flushTimer = NoTimer
    /\ isProcessingFlag = FALSE
    /\ scheduled = [flush |-> 0, watchdog |-> 0]
    /\ conn = <<>>
    /\ pending = EmptyBag
    /\ db = [id \in RequestIds |-> NoRow]
    /\ ticks = 0
    /\ events = 0
    /\ sent = 0
    /\ last = <<"init">>

\* n environment events are spent, within the budget
Spend(n) ==
    /\ events + n <= MaxEvents
    /\ events' = events + n

\* a macrotask `op` that leaves the state s behind
Done(op, arg, s) ==
    /\ Commit(s)
    /\ last' = <<op>> \o arg

\* The select of a database call is answered before the next request, socket
\* event, timer callback or clock step is handled; only other database
\* responses may overtake it.  The update that follows stays in flight for any
\* length of time, and that is where calls overlap.
SelectsAnswered == \A t \in BagToSet(pending) : t.phase # "select"

\* ---------------------------------------------------------------------------
\* Routes
\* ---------------------------------------------------------------------------
\* a /start that goes on to startTranscription when the insert has failed
StartRoute_IgnoresInsertFailure(id, tid, insertFails, ioThrows) ==
    /\ SelectsAnswered
    /\ UNCHANGED <<ticks, sent>>
    /\ \A other \in RequestIds : IdBefore(other, id) => db[other] # NoRow
    /\ tid # ""
    /\ db[id] = NoRow
    /\ Spend((IF ioThrows \/ insertFails THEN 1 ELSE 0)
              + (IF requestId # Null THEN 1 ELSE 0))
    /\ Done("start", <<"202", id>>,
            startTranscription(IF insertFails THEN Cur
                               ELSE createTranscriptionRequest(Cur, id),
                               id, tid, ioThrows))

\* POST /start with body {transcriptionId: tid, requestId: id}.  The insert
\* takes effect when its response arrives; nothing runs before that.
StartRoute(id, tid, insertFails, ioThrows) ==
    /\ SelectsAnswered
    /\ UNCHANGED <<ticks, sent>>
    /\ \A other \in RequestIds : IdBefore(other, id) => db[other] # NoRow
    /\ IF tid = ""
       THEN /\ ~insertFails /\ ~ioThrows
            /\ UNCHANGED <<mgr, conn, pending, db, events, last>>
       ELSE IF insertFails \/ db[id] # NoRow
       THEN /\ ~ioThrows
            /\ Spend(IF insertFails THEN 1 ELSE 0)
            /\ UNCHANGED <<mgr, conn, pending, db, last>>
       ELSE /\ Spend((IF ioThrows THEN 1 ELSE 0)
                     + (IF requestId # Null THEN 1 ELSE 0))
            /\ Done("start", <<"202", id>>,
                    startTranscription(createTranscriptionRequest(Cur, id),
                                       id, tid, ioThrows))

\* a /stop that does not compare the id with the active session's
StopRoute_AnyId(id) ==
    /\ SelectsAnswered
    /\ UNCHANGED <<ticks, sent, events>>
    /\ IF id = "" \/ ~isProcessingFlag
       THEN UNCHANGED <<mgr, conn, pending, db, last>>
       ELSE Done("stop", <<"accepted", id>>, stopTranscription(Cur, <<"route">>))

\* POST /stop with body {requestId: id}
StopRoute(id) ==
    /\ SelectsAnswered
    /\ UNCHANGED <<ticks, sent, events>>
    /\ IF id = "" \/ ~isProcessingFlag \/ requestId # id
       THEN UNCHANGED <<mgr, conn, pending, db, last>>
       ELSE Done("stop", <<"accepted", id>>, stopTranscription(Cur, <<"route">>))

\* ---------------------------------------------------------------------------
\* Socket events
\* ---------------------------------------------------------------------------
OnConnect(k) ==
    /\ SelectsAnswered
    /\ conn[k] = "connecting"
    /\ Done("connect", <<>>, [Cur EXCEPT !.conn[k] = "connected"])
    /\ UNCHANGED <<ticks, sent, events>>

\* socket.on('connect_error'): the transport keeps retrying on its own
OnConnectError(k) ==
    /\ SelectsAnswered
    /\ conn[k] = "connecting"
    /\ Spend(1)
    /\ Done("connect_error", <<>>,
            handleError(Cur, "WebSocket connection error", <<>>))
    /\ UNCHANGED <<ticks, sent>>

\* socket.on('auth.failed')
OnAuthFailed(k) ==
    /\ SelectsAnswered
    /\ conn[k] = "connected"
    /\ Spend(1)
    /\ Done("auth.failed", <<>>, handleError(Cur, "Authentication failed", <<>>))
    /\ UNCHANGED <<ticks, sent>>

\* the connection of socket k is lost.  After a server-side disconnect the
\* socket stays closed; after any other loss the transport reconnects by
\* itself unless the handler destroys the socket.
OnDisconnect(k, reason) ==
    /\ SelectsAnswered
    /\ conn[k] = "connected"
    /\ Spend(1)
    /\ LET lost == [Cur EXCEPT !.conn[k] =
                       IF reason = "io server disconnect" THEN "closed"
                       ELSE "connecting"]
       IN Done("disconnect", <<reason>>, onDisconnect(lost, reason))
    /\ UNCHANGED <<ticks, sent>>

OnBroadcast(k, payload) ==
    /\ SelectsAnswered
    /\ conn[k] = "connected"
    /\ sent < Len(Feed)
    /\ payload = Feed[sent + 1]
    /\ sent' = sent + 1
    /\ Spend(1)
    /\ Done("broadcast", <<payload.chunk_id>>, onBroadcast(Cur, payload))
    /\ UNCHANGED ticks

\* ---------------------------------------------------------------------------
\* Timers
\* ---------------------------------------------------------------------------
Armed(timer) == timer # NoTimer

Due(timer) == Armed(timer) /\ timer <= now

\* the setInterval callback; the interval re-arms itself
FlushTimerFires ==
    /\ SelectsAnswered
    /\ Due(flushTimer)
    /\ Done("flushTimer", <<>>,
            flushTick([Cur EXCEPT !.flushTimer = now + FLUSH_INTERVAL]))
    /\ UNCHANGED <<ticks, sent, events>>

\* the setTimeout callback of resetInactivityTimer; a timeout that fires has
\* left the timer table, and clearing it afterwards does nothing
InactivityTimerFires ==
    /\ SelectsAnswered
    /\ Due(inactivityTimer)
    /\ Done("inactivity", <<>>,
            handleInactivityTimeout([Cur EXCEPT !.scheduled["watchdog"] = @ - 1]))
    /\ UNCHANGED <<ticks, sent, events>>

\* ---------------------------------------------------------------------------
\* Database calls coming back
\* ---------------------------------------------------------------------------
\* the select of call t comes back (lines 95-122); with an error or without a
\* row the call returns null to its awaiters, which is not an exception
SelectResolves(t, fails) ==
    /\ BagIn(t, pending)
    /\ t.phase = "select"
    /\ Spend(IF fails THEN 1 ELSE 0)
    /\ LET s == [Cur EXCEPT !.pending = @ (-) SetToBag({t})]
           row == db[t.requestId]
       IN IF fails \/ row = NoRow
          THEN Done("select", <<"null">> \o t.stack, Return(s, t, TRUE))
          ELSE Done("select", <<"row">> \o t.stack,
                    [s EXCEPT !.pending = @ (+) SetToBag({
                        [t EXCEPT !.phase = "update",
                                  !.newContent = AppendContent(row.content,
                                                     t.segmentContent)]})])
    /\ UNCHANGED <<ticks, sent>>

\* the update of call t comes back (lines 123-135): it has been applied, or it
\* failed and the call throws
UpdateResolves(t, fails) ==
    /\ BagIn(t, pending)
    /\ t.phase = "update"
    /\ Spend(IF fails THEN 1 ELSE 0)
    /\ LET s == [Cur EXCEPT !.pending = @ (-) SetToBag({t})]
       IN IF fails
          THEN Done("update", <<"throws">> \o t.stack, Return(s, t, FALSE))
          ELSE Done("update", <<"ok">> \o t.stack,
                    Return([s EXCEPT !.db[t.requestId] = UpdatedRow(@, t)],
                           t, TRUE))
    /\ UNCHANGED <<ticks, sent>>

\* ---------------------------------------------------------------------------
\* Time
\* ---------------------------------------------------------------------------
\* a stored time after d milliseconds have passed.  The code reads a past time
\* only in `now - lastFlushTime >= FLUSH_INTERVAL`, so a time at least
\* FLUSH_INTERVAL old stays at -FLUSH_INTERVAL.
Shift(time, d) ==
    IF time - d < now - FLUSH_INTERVAL THEN now - FLUSH_INTERVAL ELSE time - d

ShiftTimer(timer, d) == IF Armed(timer) THEN timer - d ELSE NoTimer

ShiftCall(d, t) == [t EXCEPT !.at = Shift(@, d)]

\* the clock advances by one flush interval; a timer that is due fires
\* before it does
TickUpTo(n) ==
    /\ SelectsAnswered
    /\ ticks < n
    /\ ~Due(flushTimer)
    /\ ~Due(inactivityTimer)
    /\ Armed(flushTimer) => flushTimer >= FLUSH_INTERVAL
    /\ Armed(inactivityTimer) => inactivityTimer >= FLUSH_INTERVAL
    /\ ticks' = ticks + 1
    /\ lastFlushTime' = Shift(lastFlushTime, FLUSH_INTERVAL)
    /\ flushTimer' = ShiftTimer(flushTimer, FLUSH_INTERVAL)
    /\ inactivityTimer' = ShiftTimer(inactivityTimer, FLUSH_INTERVAL)
    /\ pending' = BagOfAll(LAMBDA t : ShiftCall(FLUSH_INTERVAL, t), pending)
    /\ last' = <<"tick">>
    /\ UNCHANGED <<socket, requestId, transcriptionId, buffer,
                   isProcessingFlag, scheduled, conn, db, sent, events>>

Tick == TickUpTo(MaxTicks)

\* the number of flush-timer ticks strictly before the watchdog is due
TicksBefore(w) == ((w - 1 - flushTimer) \div FLUSH_INTERVAL) + 1

\* A quiet period: nothing happens until the inactivity watchdog is due,
\* except the flush-timer ticks in between, which are taken in this one step.
\* With an empty buffer each of them only sets lastFlushTime.  With a
\* non-empty buffer the step stands for a database outage (one event of
\* the budget) in which the write of every one of them throws, which leaves
\* the buffer and lastFlushTime as they were.  Database calls do not stay in
\* flight across the period (the gateway bounds their duration).
QuietPeriod ==
    /\ pending = EmptyBag
    /\ Armed(inactivityTimer)
    /\ inactivityTimer > now
    /\ ~Due(flushTimer)
    /\ LET w == inactivityTimer
           skipped == Armed(flushTimer) /\ flushTimer < w
           lastTick == flushTimer + FLUSH_INTERVAL * (TicksBefore(w) - 1)
       IN /\ inactivityTimer' = now
          /\ flushTimer' = IF skipped THEN lastTick + FLUSH_INTERVAL - w
                           ELSE ShiftTimer(flushTimer, w)
          /\ lastFlushTime' = IF skipped /\ buffer = <<>>
                              THEN Shift(lastTick, w)
                              ELSE Shift(lastFlushTime, w)
          /\ Spend(IF skipped /\ buffer # <<>> THEN 1 ELSE 0)
          /\ pending' = BagOfAll(LAMBDA t : ShiftCall(w, t), pending)
    /\ last' = <<"quiet">>
    /\ UNCHANGED <<socket, requestId, transcriptionId, buffer,
                   isProcessingFlag, scheduled, conn, db, sent, ticks>>

Next ==
    \/ \E id \in RequestIds, tid \in TranscriptIds \cup {""},
          insertFails \in BOOLEAN, ioThrows \in BOOLEAN :
          StartRoute(id, tid, insertFails, ioThrows)
    \/ \E id \in RequestIds \cup {""} : StopRoute(id)
    \/ \E k \in 1..Len(conn) : OnConnect(k)
    \/ \E k \in 1..Len(conn) : OnConnectError(k)
    \/ \E k \in 1..Len(conn) : OnAuthFailed(k)
    \/ \E k \in 1..Len(conn), reason \in Reasons : OnDisconnect(k, reason)
    \/ \E k \in 1..Len(conn), payload \in Range(Feed) : OnBroadcast(k, payload)
    \/ FlushTimerFires
    \/ InactivityTimerFires
    \/ \E t \in BagToSet(pending), fails \in BOOLEAN : SelectResolves(t, fails)
    \/ \E t \in BagToSet(pending), fails \in BOOLEAN : UpdateResolves(t, fails)
    \/ Tick
    \/ QuietPeriod

Spec == Init /\ [][Next]_vars

\* ---------------------------------------------------------------------------
\* Runs of one session without faults, in which the provider may send any of
\* the Fragments in any order
\* ---------------------------------------------------------------------------
StartOnce == StartRoute("r1", "t1", FALSE, FALSE)

\* socket.on('transcription.broadcast') with any payload
PutFragment(k, payload) ==
    /\ SelectsAnswered
    /\ conn[k] = "connected"
    /\ sent < MaxPut
    /\ sent' = sent + 1
    /\ Done("broadcast", <<payload.chunk_id>>, onBroadcast(Cur, payload))
    /\ UNCHANGED <<ticks, events>>

TickCompact == TickUpTo(MaxCompactTicks)

NextCompact ==
    \/ StartOnce
    \/ \E k \in 1..Len(conn) : OnConnect(k)
    \/ \E k \in 1..Len(conn), payload \in Fragments : PutFragment(k, payload)
    \/ FlushTimerFires
    \/ \E t \in BagToSet(pending) : SelectResolves(t, FALSE)
    \/ \E t \in BagToSet(pending) : UpdateResolves(t, FALSE)
    \/ TickCompact

SpecCompact == Init /\ [][NextCompact]_vars

\* ---------------------------------------------------------------------------
\* Observations used by the properties below
\* ---------------------------------------------------------------------------
Calls == BagToSet(pending)

\* the database call t ends in this step: its update has been applied or has
\* thrown, or its select came back without a row
CallEnds(t) ==
    \/ UpdateResolves(t, FALSE)
    \/ UpdateResolves(t, TRUE)
    \/ SelectResolves(t, TRUE)

\* a stop is requested: by POST /stop, or by the inactivity watchdog
StopRequested ==
    \/ \E id \in RequestIds \cup {""} : StopRoute(id)
    \/ InactivityTimerFires

\* this step issues a database call that was not in flight before
Issued(t) == t.phase = "select" /\ CopiesIn(t, pending') > CopiesIn(t, pending)

FatalMessage == "WebSocket disconnected unexpectedly"

\* ---------------------------------------------------------------------------
\* C1
\* ---------------------------------------------------------------------------
\* C1: a stop issued while the session is not processing, whether by POST /stop
\* or by the inactivity watchdog firing after a manual stop, has no effect: the
\* manager's fields, the flush timer, the connections, the database and the
\* set of database calls in flight are unchanged.  (The watchdog that fires is
\* a one-shot timer, so inactivityTimer is left out of the frame.)
C1_StopWhenNotProcessingHasNoEffect ==
    [][(~isProcessingFlag /\ StopRequested) =>
          UNCHANGED <<socket, requestId, transcriptionId, buffer, lastFlushTime,
                      flushTimer, isProcessingFlag, conn, pending, db>>]_vars

\* ---------------------------------------------------------------------------
\* C2
\* ---------------------------------------------------------------------------
\* C2 as stated: after a fatal disconnect while processing the session has
\* left processing, and when handleError's database call has ended the record
\* has status error and a non-empty error message.
C2_FatalDisconnectEndsInError ==
    [][/\ \A k \in 1..Len(conn) :
             (isProcessingFlag /\ OnDisconnect(k, "transport close"))
                => ~isProcessingFlag'
       /\ \A t \in Calls :
             (t.errorMessage = FatalMessage /\ CallEnds(t))
                => /\ db'[t.requestId].status = "error"
                   /\ db'[t.requestId].error_message = FatalMessage]_vars

\* C2, amended: a fatal disconnect while processing takes the session out of
\* processing and issues a write of status error with a non-empty message for
\* the session's record; when that write is applied the record has status error
\* and that message (a write that fails is swallowed and leaves the record as
\* it was); and while the session is not processing POST /stop changes nothing.
C2_FatalDisconnectAmended ==
    [][/\ \A k \in 1..Len(conn) :
             (isProcessingFlag /\ OnDisconnect(k, "transport close"))
                => /\ ~isProcessingFlag'
                   /\ \E t \in BagToSet(pending') :
                         /\ Issued(t)
                         /\ t.requestId = requestId
                         /\ t.status = "error"
                         /\ t.errorMessage = FatalMessage
       /\ \A t \in Calls :
             (t.errorMessage = FatalMessage /\ UpdateResolves(t, FALSE))
                => /\ db'[t.requestId].status = "error"
                   /\ db'[t.requestId].error_message = FatalMessage
       /\ \A id \in RequestIds \cup {""} :
             (~isProcessingFlag /\ StopRoute(id))
                => UNCHANGED <<mgr, conn, pending, db>>]_vars

\* a record carries the error written for a fatal disconnect
C2_Witness ==
    /\ ~isProcessingFlag
    /\ \E id \in RequestIds :
          /\ db[id].status = "error"
          /\ db[id].error_message = FatalMessage

\* ---------------------------------------------------------------------------
\* C3
\* ---------------------------------------------------------------------------
\* the watchdog's handler is awaiting its flush
InactivityFlushInFlight ==
    \E t \in Calls : Len(t.stack) >= 2 /\ t.stack[2] = "inactivity.flush"

\* C3: a processing session is ended by its inactivity watchdog: while the
\* session is processing the watchdog is armed or its handler is running, so
\* that the handler's stop (flush, then status completed) is still to come.
C3_InactivityEndsSession ==
    isProcessingFlag => (Armed(inactivityTimer) \/ InactivityFlushInFlight)

\* ---------------------------------------------------------------------------
\* C4
\* ---------------------------------------------------------------------------
\* t is a flushBuffer write started by `starter`
FlushBy(t, starter) ==
    Len(t.stack) >= 2 /\ t.stack[1] = "flushBuffer" /\ t.stack[2] = starter

\* C4: one flush per flush interval however many fragments arrive in it: of
\* the flushes in flight, at most one was started by a fragment that arrived
\* within the last flush interval.  (The claim allows none at all: a flush is
\* to be started only by a timer tick or a terminal transition.)
C4_OneFlushPerInterval ==
    \A t \in Calls :
       (FlushBy(t, "broadcast") /\ t.at > now - FLUSH_INTERVAL)
          => /\ CopiesIn(t, pending) = 1
             /\ \A u \in Calls \ {t} :
                   FlushBy(u, "broadcast") => u.at <= now - FLUSH_INTERVAL

\* ---------------------------------------------------------------------------
\* C5
\* ---------------------------------------------------------------------------
\* the write of the flush t, which was built from the first t.covers buffered
\* fragments, has been applied and flushBuffer resumes
FlushCompletes(t) == t.stack[1] = "flushBuffer" /\ UpdateResolves(t, FALSE)

\* C5: a fragment that arrived while a flush was in flight, and that no other
\* flush in flight includes, is still in the buffer when that flush completes.
C5_FragmentDuringFlushIsKept ==
    [][\A t \in Calls :
          FlushCompletes(t) =>
             \A i \in (t.covers + 1)..Len(buffer) :
                (\A u \in Calls \ {t} : u.stack[1] = "flushBuffer" => u.covers < i)
                   => buffer[i] \in Range(buffer')]_vars

\* ---------------------------------------------------------------------------
\* C6
\* ---------------------------------------------------------------------------
\* C6: when stopTranscription, called by POST /stop on a processing session,
\* has returned (its write of the completed status has been applied), the
\* flush timer and the inactivity watchdog are disarmed, the connection is
\* closed and the persisted status is completed.
C6_AfterStopAllReleased ==
    last = <<"update", "ok", "stop.update", "route">>
       => /\ flushTimer = NoTimer
          /\ inactivityTimer = NoTimer
          /\ socket = NoSocket
          /\ \A k \in 1..Len(conn) : conn[k] = "closed"
          /\ db[requestId].status = "completed"

\* ---------------------------------------------------------------------------
\* C7
\* ---------------------------------------------------------------------------
\* stopTranscription has begun and is awaiting its flush or its status write
StopInFlight ==
    \E t \in Calls : t.stack[1] = "stop.update" \/ FlushBy(t, "stop.flush")

\* C7: while stopTranscription is awaiting persistence, no step starts a flush
\* and the inactivity watchdog does not fire.
C7_NothingStartsDuringStop ==
    [][StopInFlight =>
          /\ ~InactivityTimerFires
          /\ \A t \in BagToSet(pending') :
                ~(Issued(t) /\ t.stack[1] = "flushBuffer")]_vars

\* ---------------------------------------------------------------------------
\* C8
\* ---------------------------------------------------------------------------
\* the connections that have not been closed
OpenConnections == {k \in 1..Len(conn) : conn[k] # "closed"}

\* C8: at most one session is active: POST /start reaches startTranscription
\* only when no session is processing, and so at most one upstream connection
\* is open at any time.
C8_SingleSession ==
    /\ Cardinality(OpenConnections) <= 1
    /\ (last[1] = "start" /\ isProcessingFlag) => OpenConnections = {socket}

\* ---------------------------------------------------------------------------
\* C9
\* ---------------------------------------------------------------------------
Recoverable == {"io server disconnect", "io client disconnect"}

\* the state the handler finds when the session's connection has been closed
SessionConnectionClosed == [Cur EXCEPT !.conn[socket] = "closed"]

\* C9: while processing, a disconnect of the session's connection with a
\* server- or client-initiated reason puts that same connection back into
\* connecting and changes nothing else: the manager's fields (flag, buffer,
\* both timers, ids), the database, the calls in flight and every other
\* connection are as before.  The first conjunct is the event as delivered by
\* the transport, the second the handler run on every processing state with
\* either reason.
C9_RecoverableDisconnectReconnects ==
    [][/\ \A k \in 1..Len(conn) :
             (isProcessingFlag /\ k = socket
                 /\ OnDisconnect(k, "io server disconnect"))
                => /\ conn' = [conn EXCEPT ![k] = "connecting"]
                   /\ UNCHANGED <<mgr, pending, db>>
       /\ \A reason \in Recoverable :
             (isProcessingFlag /\ socket # NoSocket /\ conn[socket] = "connected")
                => onDisconnect(SessionConnectionClosed, reason)
                      = [Cur EXCEPT !.conn[socket] = "connecting"]]_vars

\* the session's connection is reconnecting after a server-side disconnect
C9_Witness ==
    /\ last = <<"disconnect", "io server disconnect">>
    /\ isProcessingFlag
    /\ socket # NoSocket
    /\ conn[socket] = "connecting"
    /\ Armed(flushTimer)
    /\ Armed(inactivityTimer)

\* ---------------------------------------------------------------------------
\* C10
\* ---------------------------------------------------------------------------
\* the manager is as handleError leaves it
AsAfterHandleError ==
    /\ ~isProcessingFlag
    /\ socket = NoSocket
    /\ flushTimer = NoTimer
    /\ inactivityTimer = NoTimer

\* C10: handleError is idempotent: invoked on a manager that an earlier
\* handleError left behind it changes none of the manager's fields, and when
\* its write is applied to a record that already has status error, the record
\* (status, error message, content) stays as it was.  The second conjunct is
\* stated for runs with one session only, where no connection of an earlier
\* session is left to report errors.
C10_HandleErrorIdempotent ==
    [][/\ \A k \in 1..Len(conn) :
             (AsAfterHandleError /\ (OnConnectError(k) \/ OnAuthFailed(k)))
                => UNCHANGED mgr
       /\ \A t \in Calls :
             (t.stack[1] = "handleError" /\ UpdateResolves(t, FALSE)
                 /\ Len(conn) = 1 /\ db[t.requestId].status = "error")
                => db' = db]_vars

\* ---------------------------------------------------------------------------
\* C11
\* ---------------------------------------------------------------------------
\* t is a periodic flush: started by the flush timer or by a fragment arrival
PeriodicFlush(t) == FlushBy(t, "flushTimer") \/ FlushBy(t, "broadcast")

\* C11: when the write of a periodic flush fails while the session is
\* processing, whether the timer tick or a fragment arrival started it, the
\* buffer is kept as it is and the session stays processing.
C11_FailedPeriodicFlushKeepsSession ==
    [][\A t \in Calls :
          (PeriodicFlush(t) /\ isProcessingFlag /\ UpdateResolves(t, TRUE))
             => /\ buffer' = buffer
                /\ isProcessingFlag']_vars

\* ---------------------------------------------------------------------------
\* C12
\* ---------------------------------------------------------------------------
\* t is a database call awaited by stopTranscription or by handleError
TerminalCall(t) ==
    \/ t.stack[1] = "stop.update"
    \/ t.stack[1] = "handleError"
    \/ FlushBy(t, "stop.flush")

\* t ends in failure: its select fails or its update throws
CallFails(t) == SelectResolves(t, TRUE) \/ UpdateResolves(t, TRUE)

\* only one session has been started so far
OneSession == db["r2"] = NoRow

\* C12: the in-memory transition of stopTranscription and handleError does
\* not depend on their persistence write.  The step that begins either of
\* them leaves the session not processing; a failure of their write does not
\* change the processing flag; and so, when the write has failed, the session
\* that was stopped or failed is not processing.
C12_FailedTerminalWriteKeepsTransition ==
    [][/\ \A id \in RequestIds : StopRoute(id) => ~isProcessingFlag'
       /\ \A k \in 1..Len(conn) :
             (OnConnectError(k) \/ OnAuthFailed(k)) => ~isProcessingFlag'
       /\ (InactivityTimerFires /\ FlushReturns(Cur)) => ~isProcessingFlag'
       /\ \A t \in Calls :
             (TerminalCall(t) /\ CallFails(t))
                => /\ isProcessingFlag' = isProcessingFlag
                   /\ OneSession => ~isProcessingFlag']_vars

\* the status write of a stop has failed: the manager is not processing, the
\* record still reads processing
C12_Witness ==
    /\ last = <<"update", "throws", "stop.update", "route">>
    /\ ~isProcessingFlag
    /\ db[requestId].status = "processing"

\* ---------------------------------------------------------------------------
\* C13
\* ---------------------------------------------------------------------------
IsPrefix(a, b) == Len(a) <= Len(b) /\ SubSeq(b, 1, Len(a)) = a

\* C13: persisted content is append-only, also when appends interleave: when
\* the write of an append is applied, the content the record had just before
\* is a prefix of the content it has after, and the new content is the old
\* one, a newline and the appended text (or the appended text alone when
\* there was no content).
C13_ContentAppendOnly ==
    [][\A t \in Calls :
          UpdateResolves(t, FALSE)
             => /\ IsPrefix(db[t.requestId].content, db'[t.requestId].content)
                /\ db'[t.requestId].content =
                      AppendContent(db[t.requestId].content, t.segmentContent)]_vars

\* ---------------------------------------------------------------------------
\* Observations on a buffer and on a compacted text
\* ---------------------------------------------------------------------------
ChunkIds(buf) == {buf[i].chunk_id : i \in 1..Len(buf)}

\* where chunk c was first received
FirstIndex(buf, c) ==
    CHOOSE i \in 1..Len(buf) :
       buf[i].chunk_id = c /\ \A j \in 1..(i - 1) : buf[j].chunk_id # c

\* the fragment last received for chunk c
LastOf(buf, c) ==
    buf[CHOOSE i \in 1..Len(buf) :
           buf[i].chunk_id = c /\ \A j \in (i + 1)..Len(buf) : buf[j].chunk_id # c]

\* a fragment without text and without a speaker name (names sent by the
\* provider differ from the default label)
Placeholder(e) == e.text \in Blank /\ e.speaker_name = ""

\* the chunks whose last fragment is not a placeholder
Kept(buf) == {c \in ChunkIds(buf) : ~Placeholder(LastOf(buf, c))}

\* the line expected for a fragment
LineOf(e) ==
    <<IF e.speaker_name = "" THEN "Unknown Speaker" ELSE e.speaker_name,
      ": ", e.text>>

\* the lines of a text, which is line, NL, line, ..., line
Lines(text) == [i \in 1..((Len(text) + 1) \div 2) |-> text[2 * i - 1]]

\* the compaction of the buffer as it is
Compacted == processBufferToTranscript(buffer)

\* ---------------------------------------------------------------------------
\* C14
\* ---------------------------------------------------------------------------
\* C14: deduplication covers one flush window only.  When the write of a
\* flush is applied to the content its select had read, the new content is
\* the earlier content unchanged, a newline and the flush's text, whether or
\* not chunks of that text were persisted before; and the first flush of a
\* session that has received one fragment with text makes the content that
\* fragment's line.
C14_DedupWithinFlushWindowOnly ==
    [][\A t \in Calls :
          (FlushCompletes(t)
             /\ t.newContent = AppendContent(db[t.requestId].content, t.segmentContent))
             => LET old == db[t.requestId].content
                    new == db'[t.requestId].content
                IN /\ IsPrefix(old, new)
                   /\ old # <<>> => new = old \o <<NL>> \o t.segmentContent
                   /\ (old = <<>> /\ sent = 1 /\ Len(buffer) = 1
                          /\ ~Placeholder(buffer[1]))
                         => new = <<LineOf(buffer[1])>>]_vars

\* chunk c1 has been persisted by two flushes: both blocks are in the content
C14_Witness ==
    /\ db["r1"].content = <<LineOf(F1), NL, LineOf(F3)>>
    /\ buffer = <<>>

\* ---------------------------------------------------------------------------
\* C15
\* ---------------------------------------------------------------------------
\* every chunk c of the set has a line in the text, built from its last fragment
LinesFromLast(text, buf, chunks) ==
    \A c \in chunks :
       \E i \in 1..Len(Lines(text)) : Lines(text)[i] = LineOf(LastOf(buf, c))

ComesBefore(buf, c, d) ==
    LET sc == LastOf(buf, c).start_time
        sd == LastOf(buf, d).start_time
    IN sc < sd \/ (sc = sd /\ FirstIndex(buf, c) < FirstIndex(buf, d))

\* C16: the lines of the compacted text are in ascending order of start time,
\* whatever the arrival order; chunks with equal start time are in the order
\* in which their chunk id first arrived.
C16_SortedByStartTime ==
    \A i, j \in 1..Len(Lines(Compacted)) :
       i < j =>
          \E c, d \in Kept(buffer) :
             /\ Lines(Compacted)[i] = LineOf(LastOf(buffer, c))
             /\ Lines(Compacted)[j] = LineOf(LastOf(buffer, d))
             /\ ComesBefore(buffer, c, d)

\* c3 and c1 start together and c3 arrived first; c2 starts earlier and
\* arrived last
C16_Witness ==
    /\ buffer = <<F6, F1, F2>>
    /\ Compacted = <<LineOf(F2), NL, LineOf(F6), NL, LineOf(F1)>>

\* ---------------------------------------------------------------------------
\* C17
\* ---------------------------------------------------------------------------
\* C17: compaction reads the buffer and does not change it: the text of a
\* flush started in a step is the compaction of the buffer as the step leaves
\* it, which a timer flush leaves as it found it (so that two compactions with
\* no fragment in between give the same text); and when a flush has
\* completed, the buffer is drained and its compaction is empty.
C17_CompactionPureAndDrained ==
    [][/\ \A t \in BagToSet(pending') :
             (Issued(t) /\ t.stack[1] = "flushBuffer")
                => /\ t.segmentContent = processBufferToTranscript(buffer')
                   /\ FlushBy(t, "flushTimer") => buffer' = buffer
       /\ \A t \in Calls :
             FlushCompletes(t) => processBufferToTranscript(buffer') = <<>>]_vars

\* a timer flush has completed and has drained the buffer
C17_Witness ==
    /\ last = <<"update", "ok", "flushBuffer", "flushTimer">>
    /\ buffer = <<>>
    /\ db["r1"].content # <<>>

StartAccepted(id, tid, ioThrows) ==
    /\ tid # ""
    /\ db[id] = NoRow
    /\ StartRoute(id, tid, FALSE, ioThrows)

\* C19: startTranscription(id, tid) leaves the buffer empty, the session
\* processing with these ids, one new connection that is still connecting and
\* is the one the manager holds, the flush timer and the inactivity watchdog
\* armed (each in its single slot, a full period ahead), and issues no
\* database call: the only change of the records is the insert made by the
\* route before it.
C19_StartArmsSession ==
    [][\A id \in RequestIds, tid \in TranscriptIds :
          StartAccepted(id, tid, FALSE)
             => /\ buffer' = <<>>
                /\ isProcessingFlag'
                /\ requestId' = id
                /\ transcriptionId' = tid
                /\ Len(conn') = Len(conn) + 1
                /\ socket' = Len(conn')
                /\ conn'[socket'] = "connecting"
                /\ \A k \in 1..Len(conn) : conn'[k] = conn[k]
                /\ flushTimer' = FLUSH_INTERVAL
                /\ inactivityTimer' = INACTIVITY_TIMEOUT_DURATION
                /\ pending' = pending
                /\ db' = [db EXCEPT ![id] = NewRow]]_vars

\* the first start has returned: connecting, both timers armed, nothing written
C19_Witness ==
    /\ last = <<"start", "202", "r1">>
    /\ isProcessingFlag
    /\ conn = <<"connecting">>
    /\ flushTimer # NoTimer
    /\ inactivityTimer # NoTimer
    /\ pending = EmptyBag

\* ---------------------------------------------------------------------------
\* C20
\* ---------------------------------------------------------------------------
StartMessage == "Failed to start transcription session"

\* the step of a start whose io() call throws leaves the manager not
\* processing, without timers and without a connection, and has issued the
\* write of status error for the new record
StartFailureHandled ==
    \A id \in RequestIds, tid \in TranscriptIds :
       StartAccepted(id, tid, TRUE)
          => /\ ~isProcessingFlag'
             /\ flushTimer' = NoTimer
             /\ inactivityTimer' = NoTimer
             /\ socket' = NoSocket
             /\ Len(conn') = Len(conn)
             /\ socket # NoSocket => conn'[socket] = "closed"
             /\ \E t \in BagToSet(pending') :
                   /\ Issued(t)
                   /\ t.requestId = id
                   /\ t.status = "error"
                   /\ t.errorMessage = StartMessage

\* C20 as stated: a start whose io() call throws leaves the session in error,
\* and when handleError's write has ended the record has status error with the
\* message.
C20_FailedStartEndsInError ==
    [][/\ StartFailureHandled
       /\ \A t \in Calls :
             (t.errorMessage = StartMessage /\ CallEnds(t))
                => /\ db'[t.requestId].status = "error"
                   /\ db'[t.requestId].error_message = StartMessage]_vars

\* C20, amended: a start whose io() call throws leaves the session not
\* processing, with no timer armed and no connection held, and issues a write
\* of status error with a message for the record; when that write is applied
\* the record has status error and that message (a write that fails is
\* swallowed and leaves the record as it was).
C20_FailedStartAmended ==
    [][/\ StartFailureHandled
       /\ \A t \in Calls :
             (t.errorMessage = StartMessage /\ UpdateResolves(t, FALSE))
                => /\ db'[t.requestId].status = "error"
                   /\ db'[t.requestId].error_message = StartMessage]_vars

\* the error of a failed start has been recorded
C20_Witness ==
    /\ last = <<"update", "ok", "handleError", "startTranscription">>
    /\ ~isProcessingFlag
    /\ socket = NoSocket
    /\ flushTimer = NoTimer
    /\ \E id \in RequestIds :
          /\ db[id].status = "error"
          /\ db[id].error_message = StartMessage

\* ---------------------------------------------------------------------------
\* C21
\* ---------------------------------------------------------------------------
\* the messages handleError is called with by the two handlers
ConnectErrorMessage == "WebSocket connection error"
AuthFailedMessage == "Authentication failed"

\* handleError(message) has run on the session whose connection is k
RoutedToHandleError(k, message) ==
    /\ ~isProcessingFlag'
    /\ flushTimer' = NoTimer
    /\ inactivityTimer' = NoTimer
    /\ socket' = NoSocket
    /\ conn' = [conn EXCEPT ![k] = "closed"]
    /\ \E t \in BagToSet(pending') :
          /\ Issued(t)
          /\ t.stack = <<"handleError">>
          /\ t.requestId = requestId
          /\ t.status = "error"
          /\ t.errorMessage = message

\* C21: a connection error or an authentication failure reported by the
\* session's connection runs handleError, whether or not the session is
\* processing: the session is not processing, its timers are cleared, the
\* connection is closed and no longer held, and the write of status error is
\* issued.  A connection that is closed is never opened again by a later step.
C21_AuthAndConnectErrorsAreFatal ==
    [][/\ \A k \in 1..Len(conn) :
             /\ (k = socket /\ OnConnectError(k))
                   => RoutedToHandleError(k, ConnectErrorMessage)
             /\ (k = socket /\ OnAuthFailed(k))
                   => RoutedToHandleError(k, AuthFailedMessage)
       /\ \A k \in 1..Len(conn) : conn[k] = "closed" => conn'[k] = "closed"]_vars

\* an authentication failure has ended the session and its error is recorded;
\* the connection stays closed
C21_Witness ==
    /\ last = <<"update", "ok", "handleError">>
    /\ conn = <<"closed">>
    /\ ~isProcessingFlag
    /\ db["r1"].status = "error"
    /\ db["r1"].error_message = AuthFailedMessage

\* ---------------------------------------------------------------------------
\* C22
\* ---------------------------------------------------------------------------
\* every event spent so far was a fragment event: no database call has
\* failed, no connection was lost and no second session was started
NoFaultSoFar == events = sent

\* the fragments received so far
Received == {Feed[i] : i \in 1..sent} \ {NoPayload}

\* the line of fragment e is in the text
HasLine(text, e) == \E i \in 1..Len(text) : text[i] = LineOf(e)

\* C22: absent failures, a fragment received while processing reaches the
\* persisted content by the flush of the next timer tick.  Hence, while the
\* session is processing and no write is in flight, every fragment received
\* is in the persisted content or still in the buffer, waiting for that tick.
C22_ReceivedFragmentReachesRecord ==
    (NoFaultSoFar /\ isProcessingFlag /\ pending = EmptyBag)
       => \A e \in Received :
             HasLine(db[requestId].content, e) \/ e \in Range(buffer)

\* ---------------------------------------------------------------------------
\* C23
\* ---------------------------------------------------------------------------
\* C23: a POST /start whose insert fails (the database rejects it, or a row
\* with that id exists) changes neither the manager nor the connections, the
\* calls in flight or the records; and whenever the manager takes up a
\* request id, or a connection is opened, that is a /start step which has
\* just inserted the record of that id with status processing.
C23_StartOnlyAfterRecordCreated ==
    [][/\ \A id \in RequestIds, tid \in TranscriptIds, ioThrows \in BOOLEAN :
             /\ StartRoute(id, tid, TRUE, ioThrows)
                   => UNCHANGED <<mgr, conn, pending, db>>
             /\ (db[id] # NoRow /\ StartRoute(id, tid, FALSE, ioThrows))
                   => UNCHANGED <<mgr, conn, pending, db>>
       /\ (requestId' # requestId \/ Len(conn') # Len(conn))
             => /\ db[requestId'] = NoRow
                /\ db'[requestId'] = NewRow
                /\ last' = <<"start", "202", requestId'>>]_vars

\* the insert of a first /start failed and left everything as it was; the
\* request was made again, its record was created and the session started
C23_Witness ==
    /\ last = <<"start", "202", "r1">>
    /\ events = 1
    /\ isProcessingFlag
    /\ db["r1"] = NewRow

\* ---------------------------------------------------------------------------
\* C24
\* ---------------------------------------------------------------------------
\* C24: while a session is processing, POST /stop with another request id
\* changes nothing: the manager (flag, timers, buffer, ids, socket), the
\* connections, the calls in flight and the records are as before.
C24_MismatchedStopIsRejected ==
    [][\A id \in RequestIds :
          (isProcessingFlag /\ requestId # id /\ StopRoute(id))
             => UNCHANGED <<mgr, conn, pending, db>>]_vars

\* session r2 is processing and connected, timers armed; r1 names an earlier
\* request, and a /stop for r1 can be handled now
C24_Witness ==
    /\ isProcessingFlag
    /\ requestId = "r2"
    /\ db["r1"] # NoRow
    /\ SelectsAnswered
    /\ socket # NoSocket
    /\ conn[socket] = "connected"
    /\ Armed(flushTimer)
    /\ Armed(inactivityTimer)

\* ---------------------------------------------------------------------------
\* C25
\* ---------------------------------------------------------------------------
\* t is a write of buffered fragments
IsFlush(t) == t.stack[1] = "flushBuffer"

\* C25: in runs without failures, when stopTranscription issues the write of
\* status completed, no write of buffered fragments of that session is still
\* in flight and the session's connection is closed and released; and no
\* write of buffered fragments is applied to a record whose status is
\* completed.
C25_StopWritesInOrder ==
    [][NoFaultSoFar' =>
          /\ \A t \in BagToSet(pending') :
                (Issued(t) /\ t.status = "completed")
                   => /\ \A u \in BagToSet(pending') :
                            IsFlush(u) => u.requestId # t.requestId
                      /\ socket' = NoSocket
                      /\ \A k \in 1..Len(conn') : conn'[k] = "closed"
          /\ \A t \in Calls :
                (IsFlush(t) /\ UpdateResolves(t, FALSE))
                   => db[t.requestId].status # "completed"]_vars

\* ---------------------------------------------------------------------------
\* C26
\* ---------------------------------------------------------------------------
\* the connections after the transport has lost connection k: it retries by
\* itself unless the server has closed the connection
AfterLoss(k, reason) ==
    [conn EXCEPT ![k] = IF reason = "io server disconnect" THEN "closed"
                        ELSE "connecting"]

\* C26: a disconnect delivered while the session is not processing is
\* ignored by the handler: the manager, the calls in flight and the records
\* are unchanged and the connections are as the transport left them.  This
\* holds for a connection lost during stop's await, and for the event that
\* socket.disconnect() emits inside stopTranscription and handleError, which
\* finds the flag cleared: the handler run on any state that is not
\* processing returns that state.
C26_DisconnectWhenNotProcessingIgnored ==
    [][/\ \A k \in 1..Len(conn), reason \in Reasons :
             (~isProcessingFlag /\ OnDisconnect(k, reason))
                => /\ UNCHANGED <<mgr, pending, db>>
                   /\ conn' = AfterLoss(k, reason)
       /\ \A reason \in Reasons \cup Recoverable :
             ~isProcessingFlag => onDisconnect(Cur, reason) = Cur]_vars

\* the connection was lost while stop was awaiting its write: the session
\* was not processing, and no error write was issued
C26_Witness ==
    /\ last = <<"disconnect", "transport close">>
    /\ ~isProcessingFlag
    /\ StopInFlight
    /\ conn = <<"connecting">>
    /\ \A t \in Calls : t.status # "error"

\* ---------------------------------------------------------------------------
\* C27
\* ---------------------------------------------------------------------------
\* C27: every 'transcription.broadcast' event leaves the inactivity watchdog
\* armed a full duration ahead, in the one slot the manager has for it; an
\* event without a valid payload changes nothing else, and an event with a
\* payload appends it to the buffer.  The watchdog callback never runs in the
\* step after such an event, and an armed watchdog is never further away than
\* the full duration.
C27_FragmentRearmsWatchdog ==
    [][/\ \A k \in 1..Len(conn), payload \in Range(Feed) :
             OnBroadcast(k, payload)
                => /\ inactivityTimer' = now + INACTIVITY_TIMEOUT_DURATION
                   /\ ~Due(inactivityTimer')
                   /\ payload = NoPayload
                         => UNCHANGED <<socket, requestId, transcriptionId,
                                        buffer, lastFlushTime, flushTimer,
                                        isProcessingFlag, conn, pending, db>>
                   /\ payload # NoPayload => buffer' = Append(buffer, payload)
       /\ InactivityTimerFires => last[1] # "broadcast"
       /\ Armed(inactivityTimer)
             => inactivityTimer <= now + INACTIVITY_TIMEOUT_DURATION]_vars

\* one flush interval into the session an event without payload has arrived:
\* the watchdog is a full duration ahead again and the buffer holds the two
\* fragments received before
C27_Witness ==
    /\ last = <<"broadcast", NoPayload.chunk_id>>
    /\ ticks = 1
    /\ isProcessingFlag
    /\ inactivityTimer = now + INACTIVITY_TIMEOUT_DURATION
    /\ Len(buffer) = 2

\* ---------------------------------------------------------------------------
\* C28
\* ---------------------------------------------------------------------------
\* C28: a flush write carries neither a status nor an error message, and the
\* step that applies it changes only the content of its record: status and
\* error message of every record are as before.  A flush is issued only for a
\* buffer that is not empty: a timer callback that finds the buffer empty
\* issues no database call.
C28_FlushWritesContentOnly ==
    [][/\ \A t \in BagToSet(pending') :
             IsFlush(t) => /\ t.status = Undefined
                           /\ t.errorMessage = Undefined
                           /\ t.covers > 0
       /\ \A t \in Calls :
             (IsFlush(t) /\ UpdateResolves(t, FALSE))
                => \A id \in RequestIds :
                      /\ db'[id].status = db[id].status
                      /\ db'[id].error_message = db[id].error_message
                      /\ id # t.requestId => db'[id] = db[id]
       /\ (buffer = <<>> /\ FlushTimerFires) => pending' = pending]_vars

\* a flush that was in flight when the session failed has been applied to the
\* record after the error was recorded: the record still reads error
C28_Witness ==
    /\ last = <<"update", "ok", "flushBuffer", "flushTimer">>
    /\ db["r1"].status = "error"
    /\ db["r1"].error_message = AuthFailedMessage
    /\ db["r1"].content # <<>>

\* ---------------------------------------------------------------------------
\* C29
\* ---------------------------------------------------------------------------
Terminal == {"completed", "error"}

\* C29: in runs with one session, once the status of a record is completed
\* or error, no step changes it, and no write that carries a status is applied
\* to that record again.
C29_TerminalStatusIsFinal ==
    [][OneSession =>
       /\ \A id \in RequestIds :
             db[id].status \in Terminal => db'[id].status = db[id].status
       /\ \A t \in Calls :
             (t.status # Undefined /\ UpdateResolves(t, FALSE))
                => db[t.requestId].status \notin Terminal]_vars

\* ---------------------------------------------------------------------------
\* C30
\* ---------------------------------------------------------------------------
\* the flush writes in flight, each counted as often as it was issued
FlushesInFlight ==
    LET flushes == {t \in Calls : IsFlush(t)}
    IN IF flushes = {} THEN 0
       ELSE IF \E t \in flushes : flushes = {t} /\ CopiesIn(t, pending) = 1
       THEN 1
       ELSE 2

\* no line is in the text twice
NoLineTwice(text) ==
    \A i, j \in 1..Len(text) :
       (i < j /\ text[i] = text[j]) => text[i] = NL

\* C30: in runs without failures, at most one flush write is in flight, and
\* no fragment is in the persisted content twice (no fragment is received
\* twice in these runs).
C30_EachFragmentPersistedOnce ==
    NoFaultSoFar =>
       /\ FlushesInFlight <= 1
       /\ \A id \in RequestIds : NoLineTwice(db[id].content)

\* ---------------------------------------------------------------------------
\* C31
\* ---------------------------------------------------------------------------
\* no database call is in flight, so no operation of the manager is awaiting
Idle == pending = EmptyBag

\* C31: whenever the session is not processing and no operation is in
\* progress, both timers are disarmed, the manager holds no socket and no
\* connection is open.
C31_NoResourceWhenNotProcessing ==
    (~isProcessingFlag /\ Idle)
       => /\ flushTimer = NoTimer
          /\ inactivityTimer = NoTimer
          /\ socket = NoSocket
          /\ OpenConnections = {}

\* ---------------------------------------------------------------------------
\* C32
\* ---------------------------------------------------------------------------
\* C32: a processing session always has its inactivity watchdog ahead of it:
\* while the session is processing and no operation is awaiting the database,
\* the watchdog is armed (otherwise nothing ends the session once fragments
\* stop arriving).
C32_ProcessingHasWatchdog ==
    (isProcessingFlag /\ Idle) => Armed(inactivityTimer)

\* ---------------------------------------------------------------------------
\* C33
\* ---------------------------------------------------------------------------
\* the call t of flushBuffer returns without having written: its select
\* failed or found no record (SelectResolves then reports "null"), or its
\* update failed
FlushNotAppended(t) ==
    /\ IsFlush(t)
    /\ \/ SelectResolves(t, TRUE)
       \/ (db[t.requestId] = NoRow /\ SelectResolves(t, FALSE))
       \/ UpdateResolves(t, TRUE)

\* C33: when the write of a flush was not applied, the fragments that were
\* buffered are still in the buffer.
C33_BufferKeptUnlessAppended ==
    [][\A t \in Calls :
          FlushNotAppended(t)
             => \A i \in 1..Len(buffer) : buffer[i] \in Range(buffer')]_vars

\* ---------------------------------------------------------------------------
\* C34
\* ---------------------------------------------------------------------------
\* the write that ends handleError has been applied
HandleErrorFinishes(t) == t.stack[1] = "handleError" /\ UpdateResolves(t, FALSE)

\* C34: a terminal transition persists what is buffered.  For the transition
\* through handleError in runs of one session, where the connection is closed
\* when handleError begins and no fragment arrives after that: when the write
\* of status error has been applied, every fragment then in the buffer is in
\* the persisted content of the session's record.
C34_HandleErrorPersistsBuffer ==
    [][\A t \in Calls :
          (HandleErrorFinishes(t) /\ OneSession)
             => \A i \in 1..Len(buffer) :
                   HasLine(db'[t.requestId].content, buffer[i])]_vars

\* ---------------------------------------------------------------------------
\* C35
\* ---------------------------------------------------------------------------
\* the number of timers a field stands for
Held(timer) == IF Armed(timer) THEN 1 ELSE 0

\* C35: at most one flush interval and at most one inactivity timeout set by
\* the manager are in the timer table at any time, and they are the ones its
\* fields hold: every timer that was set and replaced, by a fragment event or
\* by a further start, has been cleared.
C35_AtMostOneTimerEach ==
    /\ scheduled["flush"] <= 1
    /\ scheduled["watchdog"] <= 1
    /\ scheduled["flush"] = Held(flushTimer)
    /\ scheduled["watchdog"] = Held(inactivityTimer)

\* a second start was accepted one flush interval into the first session,
\* whose timers were armed: one timer of each kind is scheduled
C35_Witness ==
    /\ last = <<"start", "202", "r2">>
    /\ ticks = 1
    /\ isProcessingFlag
    /\ scheduled = [flush |-> 1, watchdog |-> 1]
    /\ flushTimer = now + FLUSH_INTERVAL
    /\ inactivityTimer = now + INACTIVITY_TIMEOUT_DURATION

====
